---- MODULE Spec2Model ----
(***************************************************************************)
(* A model of the IMU control panel (src/main.py): the MainWindow's sample *)
(* buffers and labels, the UDP path socket -> on_udp -> UdpParseWorker ->  *)
(* on_parsed / on_bad_packet, the HTTP path button -> send_http -> worker  *)
(* thread -> on_http_done / on_http_err, and save_csv.                     *)
(*                                                                         *)
(* Numbers: a sensor value is a fixed-point integer in units of 10^-7, one *)
(* digit finer than the finest format of the program (".6f"), so that the  *)
(* formatting of a value rounds it.  A formatted value is the integer      *)
(* count of its last printed digit.                                        *)
(*                                                                         *)
(* The QTextEdit log and the CSV file are only ever written by the         *)
(* program.  log holds the lines appended by the main-thread handler that  *)
(* ran last and fcsv the rows it wrote to the file (<<>> when it appended  *)
(* or wrote nothing).  wire lists the calls of requests.get and            *)
(* requests.post made so far, each with the thread that made it.          *)
(***************************************************************************)
EXTENDS Integers, Sequences, FiniteSets, TLC

VARIABLES
    \* MainWindow: sample buffers and widgets
    timestamps, data_ax, data_ay, data_az, data_gx, data_gy, data_gz,
    readouts, status_label, calib_label, log, fcsv,
    \* UDP path
    sock_bound, ready_conns, pending, worker_q, main_q,
    thread_running, window_open,
    \* HTTP path
    threads, wire,
    \* the device, and the histories the properties are stated over
    sent, hist, read_hist, result_hist, issued, http_hist

winVars == <<timestamps, data_ax, data_ay, data_az, data_gx, data_gy, data_gz,
             readouts, status_label, calib_label, log, fcsv>>
bufVars == <<timestamps, data_ax, data_ay, data_az, data_gx, data_gy, data_gz>>
udpVars == <<sock_bound, ready_conns, pending, worker_q, thread_running,
             window_open, read_hist, result_hist>>
httpVars == <<threads, wire, issued, http_hist>>
vars == <<winVars, udpVars, httpVars, main_q, sent, hist>>

----------------------------------------------------------------------------
\* Bounds of the exploration.
MaxSamples == 202
MaxDatagrams == 2
MaxBinds == 2
MaxRequests == 2
MaxClicks == 1

\* on_parsed keeps at most this many entries in each display buffer.
WINDOW == 200

----------------------------------------------------------------------------
\* Formatting: f"{x:.{d}f}" of a value in units of 10^-7, as the count of
\* units of 10^-d (round to nearest).
Pow10(n) == IF n = 0 THEN 1 ELSE IF n = 1 THEN 10 ELSE IF n = 2 THEN 100
            ELSE IF n = 3 THEN 1000 ELSE 10000

Fmt(x, d) == (x + (Pow10(7 - d) \div 2)) \div Pow10(7 - d)

DECIMALS == 6

\* f(x) of save_csv
f(x) == Fmt(x, DECIMALS)

\* The columns of the CSV header row.
Header == <<"index", "timestamp", "ax", "ay", "az", "gx", "gy", "gz">>

\* The device's n-th sample: its timestamp and its six values, all distinct.
Ts(n) == "t" \o ToString(n)
Val(n, j) == 100 * n + 10 * j + (IF j % 2 = 0 THEN 4 ELSE 6)
Sample(n) == <<Ts(n), Val(n, 0), Val(n, 1), Val(n, 2), Val(n, 3), Val(n, 4), Val(n, 5)>>

Min(S) == CHOOSE m \in S : \A x \in S : m <= x

----------------------------------------------------------------------------
\* list.pop() where list.pop(0) is meant: the newest entry goes, not the oldest.
PopLast(s) == SubSeq(s, 1, Len(s) - 1)

\* list.pop(0)
Pop0(s) == Tail(s)

\* on_parsed(ts, ax, ay, az, gx, gy, gz): the window's part.
on_parsed(ts, ax, ay, az, gx, gy, gz) ==
    LET ax1 == Append(data_ax, ax)
        gx1 == Append(data_gx, gx)
    IN  /\ timestamps' = Append(timestamps, ts)
        /\ data_ax' = IF Len(ax1) > WINDOW THEN Pop0(ax1) ELSE ax1
        /\ data_ay' = IF Len(ax1) > WINDOW THEN Pop0(Append(data_ay, ay))
                                           ELSE Append(data_ay, ay)
        /\ data_az' = IF Len(ax1) > WINDOW THEN Pop0(Append(data_az, az))
                                           ELSE Append(data_az, az)
        /\ data_gx' = IF Len(gx1) > WINDOW THEN Pop0(gx1) ELSE gx1
        /\ data_gy' = IF Len(gx1) > WINDOW THEN Pop0(Append(data_gy, gy))
                                           ELSE Append(data_gy, gy)
        /\ data_gz' = IF Len(gx1) > WINDOW THEN Pop0(Append(data_gz, gz))
                                           ELSE Append(data_gz, gz)
        /\ readouts' = <<Fmt(ax, 6), Fmt(ay, 6), Fmt(az, 6),
                         Fmt(gx, 6), Fmt(gy, 6), Fmt(gz, 6)>>
        /\ log' = << <<"UDP packet", ts,
                       <<Fmt(ax, 3), Fmt(ay, 3), Fmt(az, 3)>>,
                       <<Fmt(gx, 3), Fmt(gy, 3), Fmt(gz, 3)>> >> >>
        /\ fcsv' = <<>>
        /\ UNCHANGED <<status_label, calib_label>>

\* on_bad_packet(msg)
on_bad_packet(msg) ==
    /\ log' = << msg >>
    /\ fcsv' = <<>>
    /\ UNCHANGED <<bufVars, readouts, status_label, calib_label>>

\* clear_data(): the buffers emptied, the readouts reset, one log line.
clear_data ==
    /\ data_ax' = <<>>
    /\ data_ay' = <<>>
    /\ data_az' = <<>>
    /\ data_gx' = <<>>
    /\ data_gy' = <<>>
    /\ data_gz' = <<>>
    /\ timestamps' = <<>>
    /\ readouts' = <<0, 0, 0, 0, 0, 0>>
    /\ log' = << <<"Data cleared and plots reset">> >>
    /\ fcsv' = <<>>
    /\ UNCHANGED <<status_label, calib_label>>

\* The rows save_csv writes: the header, then rows 0 .. n-1.
CsvRows ==
    LET n == Min({Len(timestamps), Len(data_ax), Len(data_ay), Len(data_az),
                  Len(data_gx), Len(data_gy), Len(data_gz)})
    IN  <<Header>> \o
        [i \in 1..n |-> <<i - 1, timestamps[i], f(data_ax[i]), f(data_ay[i]),
                          f(data_az[i]), f(data_gx[i]), f(data_gy[i]),
                          f(data_gz[i])>>]

\* save_csv(): filename is the dialog's answer ("" when cancelled); writable
\* tells whether open(filename, "w") succeeds.
save_csv(filename, writable) ==
    /\ UNCHANGED <<bufVars, readouts, status_label, calib_label>>
    /\ IF filename = ""
       THEN log' = <<>> /\ fcsv' = <<>>
       ELSE IF writable
            THEN /\ log' = << <<"Saved", Len(CsvRows) - 1, filename>> >>
                 /\ fcsv' = CsvRows
            ELSE /\ log' = << <<"Error saving CSV", filename>> >>
                 /\ fcsv' = <<>>

\* A main-thread handler that touches neither the buffers, nor the labels,
\* nor the log, nor a file.
Quiet ==
    /\ log' = <<>>
    /\ fcsv' = <<>>
    /\ UNCHANGED <<bufVars, readouts, status_label, calib_label>>

----------------------------------------------------------------------------
\* The state after MainWindow.__init__.
Init ==
    /\ timestamps = <<>>
    /\ data_ax = <<>> /\ data_ay = <<>> /\ data_az = <<>>
    /\ data_gx = <<>> /\ data_gy = <<>> /\ data_gz = <<>>
    /\ readouts = <<0, 0, 0, 0, 0, 0>>
    /\ status_label = <<"Status", <<"not requested", 0>> >>
    /\ calib_label = <<"Calibration", <<"unknown", 0>> >>
    /\ log = <<>>
    /\ fcsv = <<>>
    /\ sock_bound = FALSE
    /\ ready_conns = 0
    /\ pending = <<>>
    /\ worker_q = <<>>
    /\ main_q = <<>>
    /\ thread_running = TRUE
    /\ window_open = TRUE
    /\ threads = {}
    /\ wire = <<>>
    /\ sent = 0
    /\ hist = <<>>
    /\ read_hist = <<>>
    /\ result_hist = <<>>
    /\ issued = 0
    /\ http_hist = <<>>

\* The parsed signal delivered to the main thread with sample s.
Parsed(s) ==
    /\ on_parsed(s[1], s[2], s[3], s[4], s[5], s[6], s[7])
    /\ hist' = Append(hist, s)

----------------------------------------------------------------------------
\* The window alone: samples delivered one by one, Clear Data and Save CSV
\* pressed at any moment.
WinParsed ==
    /\ sent < MaxSamples
    /\ sent' = sent + 1
    /\ Parsed(Sample(sent + 1))
    /\ UNCHANGED <<udpVars, httpVars, main_q>>

ClearData ==
    /\ window_open
    /\ clear_data
    /\ hist' = <<>>
    /\ UNCHANGED <<udpVars, httpVars, main_q, sent>>

Filenames == {"", "imu_data.csv"}

SaveCsv ==
    /\ window_open
    /\ UNCHANGED <<udpVars, httpVars, main_q, sent, hist>>
    /\ \E filename \in Filenames, writable \in BOOLEAN :
          /\ (filename = "" => writable)
          /\ save_csv(filename, writable)

NextWindow == WinParsed \/ ClearData \/ SaveCsv

SpecWindow == Init /\ [][NextWindow]_vars

----------------------------------------------------------------------------
\* The UDP path.

\* The JSON keys UdpParseWorker.process reads, in the order it reads them.
ValueKeys == <<"accel.x", "accel.y", "accel.z", "gyro.x", "gyro.y", "gyro.z">>
AllKeys == {"timestamp"} \cup {ValueKeys[j] : j \in 1..6}

\* A datagram: the device's sample number n, whether its bytes are JSON, and
\* the keys its JSON object carries.
Datagram(n, json, keys) == [n |-> n, json |-> json, keys |-> keys]

\* The datagrams the device may send as its n-th: complete, without a
\* timestamp, without one of the six values, without any value, not JSON.
DatagramsOf(n) ==
    {Datagram(n, TRUE, AllKeys), Datagram(n, TRUE, AllKeys \ {"timestamp"}),
     Datagram(n, TRUE, {"timestamp"}), Datagram(n, FALSE, {})}
    \cup {Datagram(n, TRUE, AllKeys \ {ValueKeys[j]}) : j \in 1..6}

\* process with msg.get(key, 0.0) where msg[key] is meant: a missing value
\* reads as zero and the packet is parsed.
process_lenient(b) ==
    IF ~b.json
    THEN << <<"bad", <<"Bad packet", "json">> >> >>
    ELSE << <<"parsed", <<IF "timestamp" \in b.keys THEN Ts(b.n) ELSE "",
                          IF "accel.x" \in b.keys THEN Val(b.n, 0) ELSE 0,
                          IF "accel.y" \in b.keys THEN Val(b.n, 1) ELSE 0,
                          IF "accel.z" \in b.keys THEN Val(b.n, 2) ELSE 0,
                          IF "gyro.x" \in b.keys THEN Val(b.n, 3) ELSE 0,
                          IF "gyro.y" \in b.keys THEN Val(b.n, 4) ELSE 0,
                          IF "gyro.z" \in b.keys THEN Val(b.n, 5) ELSE 0>> >> >>

\* UdpParseWorker.process(b): the signals it emits, in order.
process(b) ==
    IF ~b.json
    THEN << <<"bad", <<"Bad packet", "json">> >> >>
    ELSE LET ts == IF "timestamp" \in b.keys THEN Ts(b.n) ELSE ""
             missing == {j \in 1..6 : ValueKeys[j] \notin b.keys}
         IN  IF missing # {}
             THEN << <<"bad", <<"Bad packet", ValueKeys[Min(missing)]>> >> >>
             ELSE << <<"parsed", <<ts, Val(b.n, 0), Val(b.n, 1), Val(b.n, 2),
                                   Val(b.n, 3), Val(b.n, 4), Val(b.n, 5)>> >> >>

\* bind_udp with the connect outside the if: readyRead is connected whether
\* or not the bind succeeded.
bind_udp_always_connects(ok) ==
    [bound |-> IF ok THEN TRUE ELSE sock_bound,
     conns |-> ready_conns + 1,
     line |-> IF ok THEN <<"Listening on UDP port">>
                    ELSE <<"Failed to bind UDP port">>]

\* bind_udp(): ok is the answer of udp_socket.bind.  The result is the
\* socket's state, the number of readyRead -> on_udp connections and the
\* log line.
bind_udp(ok) ==
    IF ok
    THEN [bound |-> TRUE, conns |-> ready_conns + 1,
          line |-> <<"Listening on UDP port">>]
    ELSE [bound |-> sock_bound, conns |-> ready_conns,
          line |-> <<"Failed to bind UDP port">>]

BindUdp ==
    /\ window_open
    /\ \E ok \in BOOLEAN :
          /\ (ok => ready_conns < MaxBinds)
          /\ sock_bound' = bind_udp(ok).bound
          /\ ready_conns' = bind_udp(ok).conns
          /\ log' = << bind_udp(ok).line >>
    /\ fcsv' = <<>>
    /\ UNCHANGED <<bufVars, readouts, status_label, calib_label, pending,
                   worker_q, thread_running, window_open, read_hist,
                   result_hist, httpVars, main_q, sent, hist>>

\* The device sends its next datagram; a socket that is not bound receives
\* nothing.
DeviceSend ==
    /\ sent < MaxDatagrams
    /\ sent' = sent + 1
    /\ \E d \in DatagramsOf(sent + 1) :
          pending' = IF sock_bound THEN Append(pending, d) ELSE pending
    /\ UNCHANGED <<winVars, sock_bound, ready_conns, worker_q, thread_running,
                   window_open, read_hist, result_hist, httpVars, main_q, hist>>

\* on_udp with the emit after the loop instead of inside it: every pending
\* datagram is read, only the last is handed to the worker.
on_udp_emit_after_loop(st) ==
    IF st.pending = <<>>
    THEN st
    ELSE [pending |-> <<>>,
          worker_q |-> Append(st.worker_q, st.pending[Len(st.pending)])]

\* on_udp(): while the socket has pending datagrams, read one and emit it to
\* the worker.  st is the pair of the socket's pending datagrams and the
\* worker's queue.
RECURSIVE on_udp(_)
on_udp(st) ==
    IF st.pending = <<>>
    THEN st
    ELSE on_udp([pending |-> Tail(st.pending),
                 worker_q |-> Append(st.worker_q, Head(st.pending))])

\* readyRead: every connection to on_udp is called, one after the other.
RECURSIVE RunSlots(_, _)
RunSlots(n, st) == IF n = 0 THEN st ELSE RunSlots(n - 1, on_udp(st))

ReadyRead ==
    /\ window_open
    /\ pending # <<>>
    /\ LET st == RunSlots(ready_conns, [pending |-> pending, worker_q |-> worker_q])
       IN  /\ pending' = st.pending
           /\ worker_q' = st.worker_q
           /\ read_hist' = read_hist \o SubSeq(pending, 1, Len(pending) - Len(st.pending))
    /\ Quiet
    /\ UNCHANGED <<sock_bound, ready_conns, thread_running, window_open,
                   result_hist, httpVars, main_q, sent, hist>>

\* The worker thread's event loop runs process on the next queued datagram;
\* the signals it emits are queued for the main thread.
WorkerProcess ==
    /\ thread_running
    /\ worker_q # <<>>
    /\ worker_q' = Tail(worker_q)
    /\ main_q' = main_q \o process(Head(worker_q))
    /\ UNCHANGED <<winVars, sock_bound, ready_conns, pending, thread_running,
                   window_open, read_hist, result_hist, httpVars, sent, hist>>

\* The main thread's event loop delivers the next queued signal.
DeliverParsed ==
    /\ window_open
    /\ main_q # <<>>
    /\ Head(main_q)[1] = "parsed"
    /\ Parsed(Head(main_q)[2])
    /\ main_q' = Tail(main_q)
    /\ result_hist' = Append(result_hist, Head(main_q))
    /\ UNCHANGED <<sock_bound, ready_conns, pending, worker_q, thread_running,
                   window_open, read_hist, httpVars, sent>>

DeliverBad ==
    /\ window_open
    /\ main_q # <<>>
    /\ Head(main_q)[1] = "bad"
    /\ on_bad_packet(Head(main_q)[2])
    /\ main_q' = Tail(main_q)
    /\ result_hist' = Append(result_hist, Head(main_q))
    /\ UNCHANGED <<sock_bound, ready_conns, pending, worker_q, thread_running,
                   window_open, read_hist, httpVars, sent, hist>>

\* closeEvent(): the worker thread's event loop is told to quit and the
\* window, the application's last, closes.
CloseEvent ==
    /\ window_open
    /\ thread_running' = FALSE
    /\ window_open' = FALSE
    /\ Quiet
    /\ UNCHANGED <<sock_bound, ready_conns, pending, worker_q,
                   read_hist, result_hist, httpVars, main_q, sent, hist>>

NextUdp == BindUdp \/ DeviceSend \/ ReadyRead \/ WorkerProcess
           \/ DeliverParsed \/ DeliverBad \/ CloseEvent

SpecUdp == Init /\ [][NextUdp]_vars

----------------------------------------------------------------------------
\* The HTTP path.

\* send_http(path, post): one daemon thread is started to run work(); id
\* numbers the threads in the order they are started.
send_http(path, post) ==
    /\ threads' = threads \cup {[id |-> issued + 1, path |-> path, post |-> post]}
    /\ issued' = issued + 1

\* path.startswith(prefix), for the paths the program uses.
startswith(path, prefix) == path = prefix

\* work() without the post branch: every call is requests.get.
RequestAlwaysGet(t) ==
    IF startswith(t.path, "/imu/delay")
    THEN [method |-> "GET", path |-> t.path, params |-> {"ms"}]
    ELSE IF startswith(t.path, "/target/set")
    THEN [method |-> "GET", path |-> t.path, params |-> {"ip", "port"}]
    ELSE [method |-> "GET", path |-> t.path, params |-> {}]

\* The call work() makes for a thread: requests.get or requests.post, the
\* path and the names of the query parameters.
Request(t) ==
    IF startswith(t.path, "/imu/delay")
    THEN [method |-> "GET", path |-> t.path, params |-> {"ms"}]
    ELSE IF startswith(t.path, "/target/set")
    THEN [method |-> "GET", path |-> t.path, params |-> {"ip", "port"}]
    ELSE IF t.post
    THEN [method |-> "POST", path |-> t.path, params |-> {}]
    ELSE [method |-> "GET", path |-> t.path, params |-> {}]

\* What a request may answer: a response body, which is the pair of its
\* shape and the thread it answers, or an exception.
Shapes(path) == IF path = "/status" THEN {"plain", "json", "json_cal", "json_last"}
                ELSE {"plain"}
Errors == {"timed out"}

\* The keys of json.loads(text) (<<FALSE, {}>> when text is not JSON).
json_loads(text) ==
    IF text[1] = "json" THEN <<TRUE, {}>>
    ELSE IF text[1] = "json_cal" THEN <<TRUE, {"last_calibration", "calibrating"}>>
    ELSE IF text[1] = "json_last" THEN <<TRUE, {"last_calibration"}>>
    ELSE <<FALSE, {}>>

\* work() with "except Exception: pass": a request that raises emits nothing.
work_swallows_errors(t, ok, body) ==
    IF ok THEN << <<"http_done", t.path, body>> >> ELSE <<>>

\* work(): the signals the thread emits once its request has answered
\* (ok, body the response's text) or raised (~ok, body the exception's text).
work(t, ok, body) ==
    IF ok THEN << <<"http_done", t.path, body>> >>
          ELSE << <<"http_err", t.path, body>> >>

HttpWork ==
    \E t \in threads :
        /\ threads' = threads \ {t}
        /\ wire' = Append(wire, <<t.id, Request(t)>>)
        /\ \/ \E shape \in Shapes(t.path) :
                 main_q' = main_q \o work(t, TRUE, <<shape, t.id>>)
           \/ \E e \in Errors :
                 main_q' = main_q \o work(t, FALSE, <<e, t.id>>)
        /\ UNCHANGED <<winVars, udpVars, issued, http_hist, sent, hist>>

\* on_http_done(path, text)
on_http_done(path, text) ==
    /\ status_label' = IF path = "/status" THEN <<"Status", text>> ELSE status_label
    /\ calib_label' =
          IF /\ path = "/status"
             /\ json_loads(text)[1]
             /\ "last_calibration" \in json_loads(text)[2]
             /\ "calibrating" \in json_loads(text)[2]
          THEN <<"Calibration", text>>
          ELSE calib_label
    /\ log' = << <<"HTTP", path, text>> >>
    /\ fcsv' = <<>>
    /\ UNCHANGED <<bufVars, readouts>>

\* on_http_err(path, err)
on_http_err(path, err) ==
    /\ status_label' = <<"Error", err>>
    /\ log' = << <<"Error calling", path, err>> >>
    /\ fcsv' = <<>>
    /\ UNCHANGED <<bufVars, readouts, calib_label>>

DeliverHttpDone ==
    /\ window_open
    /\ main_q # <<>>
    /\ Head(main_q)[1] = "http_done"
    /\ on_http_done(Head(main_q)[2], Head(main_q)[3])
    /\ main_q' = Tail(main_q)
    /\ http_hist' = Append(http_hist, Head(main_q))
    /\ UNCHANGED <<udpVars, threads, wire, issued, sent, hist>>

DeliverHttpErr ==
    /\ window_open
    /\ main_q # <<>>
    /\ Head(main_q)[1] = "http_err"
    /\ on_http_err(Head(main_q)[2], Head(main_q)[3])
    /\ main_q' = Tail(main_q)
    /\ http_hist' = Append(http_hist, Head(main_q))
    /\ UNCHANGED <<udpVars, threads, wire, issued, sent, hist>>

\* A control whose handler is send_http(path, post): the thread is started,
\* nothing else of the window changes.
Control(path, post) ==
    /\ window_open
    /\ issued < MaxRequests
    /\ send_http(path, post)
    /\ Quiet
    /\ UNCHANGED <<udpVars, wire, http_hist, main_q, sent, hist>>

StartClicked == Control("/stream/start", FALSE)
StopClicked == Control("/stream/stop", FALSE)
ToggleClicked == Control("/stream/toggle", FALSE)
StatusClicked == Control("/status", FALSE)
RecalibClicked == Control("/recalibrate", TRUE)
ResetTargetClicked == Control("/target/reset", FALSE)
\* set_delay() and save_target()
set_delay == Control("/imu/delay", FALSE)
save_target == Control("/target/set", FALSE)

NextHttp == StartClicked \/ StopClicked \/ ToggleClicked \/ StatusClicked
            \/ RecalibClicked \/ ResetTargetClicked \/ set_delay \/ save_target
            \/ HttpWork \/ DeliverHttpDone \/ DeliverHttpErr

SpecHttp == Init /\ [][NextHttp]_vars

----------------------------------------------------------------------------
\* The window's controls together: the HTTP controls (at most MaxClicks
\* presses), Bind UDP, Clear Data, Save CSV, and parsed samples coming in (at
\* most MaxClicks).
NextControls ==
    \/ StartClicked /\ issued' <= MaxClicks
    \/ StopClicked /\ issued' <= MaxClicks
    \/ ToggleClicked /\ issued' <= MaxClicks
    \/ StatusClicked /\ issued' <= MaxClicks
    \/ RecalibClicked /\ issued' <= MaxClicks
    \/ ResetTargetClicked /\ issued' <= MaxClicks
    \/ set_delay /\ issued' <= MaxClicks
    \/ save_target /\ issued' <= MaxClicks
    \/ HttpWork
    \/ DeliverHttpDone
    \/ DeliverHttpErr
    \/ BindUdp
    \/ ClearData
    \/ SaveCsv
    \/ WinParsed /\ sent' <= MaxClicks

SpecControls == Init /\ [][NextControls]_vars

----------------------------------------------------------------------------
\* The claims about the window's buffers (SpecWindow).

\* Column j (2..7: ax, ay, az, gx, gy, gz) of the last min(k, WINDOW) of the
\* k samples parsed since the most recent clear_data.
LastWindow(j) ==
    LET k == Len(hist)
        m == IF k < WINDOW THEN k ELSE WINDOW
    IN  [i \in 1..m |-> hist[k - m + i][j]]

\* C1: each of the six display buffers holds exactly the last min(k, 200)
\* samples parsed since the most recent clear_data, in arrival order; none
\* is ever longer than 200 and all six have the same length.
C1_DisplayBuffers ==
    /\ data_ax = LastWindow(2)
    /\ data_ay = LastWindow(3)
    /\ data_az = LastWindow(4)
    /\ data_gx = LastWindow(5)
    /\ data_gy = LastWindow(6)
    /\ data_gz = LastWindow(7)
    /\ Len(data_ax) <= WINDOW
    /\ \A b \in {data_ay, data_az, data_gx, data_gy, data_gz} : Len(b) = Len(data_ax)

\* More than 200 samples have been parsed since a clear_data: the buffers
\* have dropped their oldest entries.
C1_Witness ==
    /\ Len(hist) > WINDOW
    /\ sent > Len(hist)
    /\ Len(data_gz) = WINDOW

\* The rows of a CSV file that holds every sample of hist, in order.
AllRows ==
    <<Header>> \o
    [i \in 1..Len(hist) |-> <<i - 1, hist[i][1], f(hist[i][2]), f(hist[i][3]),
                              f(hist[i][4]), f(hist[i][5]), f(hist[i][6]),
                              f(hist[i][7])>>]

\* C2: save_csv with a filename chosen writes the header and then one row
\* for every sample accumulated since the most recent clear_data, in arrival
\* order, indexed 0, 1, 2, ...; cancelled, it writes nothing; in every case
\* it leaves the seven sample buffers unchanged.
C2_SaveCsvWritesAll ==
    [][SaveCsv =>
         /\ UNCHANGED bufVars
         /\ (log' = <<>> => fcsv' = <<>>)
         /\ (log' # <<>> /\ log'[1][1] = "Saved" => fcsv' = AllRows)]_vars

\* C8: the timestamps list is as long as each display buffer, and the
\* entries at one index all come from the same datagram.
C8_TimestampsAligned ==
    /\ \A b \in {data_ax, data_ay, data_az, data_gx, data_gy, data_gz} :
          Len(b) = Len(timestamps)
    /\ \A i \in 1..Len(timestamps) :
          LET row == <<timestamps[i], data_ax[i], data_ay[i], data_az[i],
                       data_gx[i], data_gy[i], data_gz[i]>>
          IN  \/ hist[Len(hist) - Len(timestamps) + i] = row
              \/ \E n \in 1..Len(hist) : hist[n] = row

----------------------------------------------------------------------------
\* The claims about the UDP path (SpecUdp).

\* A datagram that is not valid JSON or lacks one of the six values.
IsBadDatagram(d) == ~d.json \/ \E j \in 1..6 : ValueKeys[j] \notin d.keys

\* The samples of the datagrams of seq that are not bad, in order.
RECURSIVE GoodSamples(_)
GoodSamples(seq) ==
    IF seq = <<>> THEN <<>>
    ELSE LET d == Head(seq)
         IN  IF IsBadDatagram(d) THEN GoodSamples(Tail(seq))
             ELSE << <<IF "timestamp" \in d.keys THEN Ts(d.n) ELSE "",
                       Val(d.n, 0), Val(d.n, 1), Val(d.n, 2),
                       Val(d.n, 3), Val(d.n, 4), Val(d.n, 5)>> >>
                  \o GoodSamples(Tail(seq))

\* The buffers hold the samples of exactly the datagrams, among those whose
\* result has been delivered, that are not bad.
C3_OnlyGoodAppended ==
    LET good == GoodSamples(SubSeq(read_hist, 1, Len(result_hist)))
    IN  /\ timestamps = [i \in 1..Len(good) |-> good[i][1]]
        /\ data_ax = [i \in 1..Len(good) |-> good[i][2]]
        /\ data_ay = [i \in 1..Len(good) |-> good[i][3]]
        /\ data_az = [i \in 1..Len(good) |-> good[i][4]]
        /\ data_gx = [i \in 1..Len(good) |-> good[i][5]]
        /\ data_gy = [i \in 1..Len(good) |-> good[i][6]]
        /\ data_gz = [i \in 1..Len(good) |-> good[i][7]]

\* The worker, on a bad datagram, emits bad once and parsed never; on any
\* other datagram, whatever came before it, it emits parsed once.  The bad
\* signal, delivered, appends one 'Bad packet' line and changes neither the
\* buffers nor the readouts.
C3_BadPacketStep ==
    /\ (WorkerProcess /\ IsBadDatagram(Head(worker_q)) =>
           /\ Len(main_q') = Len(main_q) + 1
           /\ SubSeq(main_q', 1, Len(main_q)) = main_q
           /\ main_q'[Len(main_q')][1] = "bad")
    /\ (WorkerProcess /\ ~IsBadDatagram(Head(worker_q)) =>
           /\ Len(main_q') = Len(main_q) + 1
           /\ SubSeq(main_q', 1, Len(main_q)) = main_q
           /\ main_q'[Len(main_q')][1] = "parsed")
    /\ (DeliverBad =>
           /\ Len(log') = 1
           /\ log'[1][1] = "Bad packet"
           /\ UNCHANGED <<bufVars, readouts>>)

\* C3: a datagram that is not valid JSON or lacks one of the six values is
\* logged and skipped: bad is emitted once and parsed never, one 'Bad
\* packet' line is appended, timestamps, buffers and readouts are unchanged,
\* and every later valid datagram is still parsed and appended.
C3_BadPacketSkipped == []C3_OnlyGoodAppended /\ [][C3_BadPacketStep]_vars

\* A bad packet was delivered, and after it a valid one, which was appended.
C3_Witness ==
    /\ Len(result_hist) = 2
    /\ result_hist[1][1] = "bad"
    /\ result_hist[2][1] = "parsed"
    /\ Len(timestamps) = 1

\* The signal sig is a result of datagram d: parsed with d's values, or bad
\* for a bad d.
ResultOf(sig, d) ==
    \/ sig[1] = "parsed" /\ ~IsBadDatagram(d) /\ sig[2][2] = Val(d.n, 0)
    \/ sig[1] = "bad" /\ IsBadDatagram(d)

\* C5: every datagram read from the socket by on_udp is either still queued
\* for the worker, or has exactly one result, queued for or delivered to the
\* main thread; queues and deliveries keep the order of the reads.
C5_HandOff ==
    LET results == result_hist \o main_q
        n == Len(results)
    IN  /\ n + Len(worker_q) = Len(read_hist)
        /\ worker_q = SubSeq(read_hist, n + 1, Len(read_hist))
        /\ \A i \in 1..n : ResultOf(results[i], read_hist[i])

\* C5, the progress: while the window is open, the i-th datagram read gets
\* its result delivered.
C5_Delivered ==
    \A i \in 1..MaxDatagrams :
        (Len(read_hist) >= i) ~> (~window_open \/ Len(result_hist) >= i)

C5_LosslessOrdered == []C5_HandOff /\ C5_Delivered

\* Two datagrams were read in one on_udp call and both results delivered.
C5_Witness ==
    /\ Len(read_hist) = 2
    /\ Len(result_hist) = 2
    /\ result_hist[1][1] # result_hist[2][1]
    /\ window_open

FairSpecUdp ==
    /\ SpecUdp
    /\ WF_vars(WorkerProcess)
    /\ WF_vars(DeliverParsed)
    /\ WF_vars(DeliverBad)

\* Nothing is read or produced while the socket is not bound.
C7_NothingBeforeBind ==
    (~sock_bound \/ ready_conns = 0) =>
        /\ ~sock_bound /\ ready_conns = 0
        /\ pending = <<>> /\ worker_q = <<>> /\ main_q = <<>>
        /\ read_hist = <<>> /\ result_hist = <<>>
        /\ timestamps = <<>> /\ data_ax = <<>> /\ data_gz = <<>>

\* A failed bind only logs; readyRead hands each pending datagram to the
\* worker once, however many times on_udp is connected.
C7_BindStep ==
    /\ (BindUdp /\ log' = << <<"Failed to bind UDP port">> >> =>
           /\ ready_conns' = ready_conns
           /\ sock_bound' = sock_bound
           /\ UNCHANGED <<bufVars, readouts, pending, worker_q, main_q>>)
    /\ (ReadyRead =>
           /\ worker_q' = worker_q \o pending
           /\ pending' = <<>>)

\* C7: before the first successful bind_udp no datagram is read and no
\* sample or bad-packet line is produced; a failed bind_udp only appends
\* 'Failed to bind UDP port' and neither connects readyRead nor changes the
\* sample buffers; after any number of bind_udp presses each received
\* datagram is handed to the worker exactly once.
C7_BindUdp == []C7_NothingBeforeBind /\ [][C7_BindStep]_vars

\* on_udp is connected twice, a bind has failed since, and a datagram went
\* through.
C7_Witness ==
    /\ ready_conns = 2
    /\ log = << <<"Failed to bind UDP port">> >>
    /\ Len(read_hist) >= 1
    /\ Len(worker_q) = Len(read_hist)

----------------------------------------------------------------------------
\* The claims about the HTTP path (SpecControls, SpecHttp).

\* The request each path stands for.
ExpectedRequest(path) ==
    [method |-> IF path = "/recalibrate" THEN "POST" ELSE "GET",
     path |-> path,
     params |-> IF path = "/imu/delay" THEN {"ms"}
                ELSE IF path = "/target/set" THEN {"ip", "port"} ELSE {}]

\* The step starts exactly one thread, for path, and makes no request yet.
StartsOne(path) ==
    /\ Cardinality(threads' \ threads) = 1
    /\ threads \subseteq threads'
    /\ \A t \in threads' \ threads : t.path = path
    /\ wire' = wire

\* Every thread started makes exactly one request, the one its path stands
\* for: while it runs it has made none, once it is gone it has made one.
C4_OneRequestEach ==
    /\ \A id \in 1..issued :
          Cardinality({t \in threads : t.id = id})
          + Cardinality({i \in 1..Len(wire) : wire[i][1] = id}) = 1
    /\ \A i \in 1..Len(wire) : wire[i][2] = ExpectedRequest(wire[i][2].path)

\* A step that starts or ends a thread.
C4_ThreadStep ==
    /\ (StartClicked => StartsOne("/stream/start"))
    /\ (StopClicked => StartsOne("/stream/stop"))
    /\ (ToggleClicked => StartsOne("/stream/toggle"))
    /\ (StatusClicked => StartsOne("/status"))
    /\ (ResetTargetClicked => StartsOne("/target/reset"))
    /\ (RecalibClicked => StartsOne("/recalibrate"))
    /\ (set_delay => StartsOne("/imu/delay"))
    /\ (save_target => StartsOne("/target/set"))
    /\ (HttpWork =>
           \E t \in threads :
              /\ threads' = threads \ {t}
              /\ wire' = Append(wire, <<t.id, ExpectedRequest(t.path)>>))

\* A step that changes the set of threads is a control's or a thread's own;
\* the other handlers start no thread and make no request.
C4_ControlStep ==
    /\ (threads' = threads \/ C4_ThreadStep)
    /\ \/ threads' = threads /\ wire' = wire /\ issued' = issued
       \/ ~(BindUdp \/ ClearData \/ SaveCsv \/ WinParsed
            \/ DeliverHttpDone \/ DeliverHttpErr)

\* C4: each control issues exactly one HTTP request with a fixed path,
\* method and parameter set (POST only for /recalibrate, ms for /imu/delay,
\* ip and port for /target/set); Bind UDP, Clear Data, Save CSV and an
\* incoming sample issue none.
C4_FixedRequests == []C4_OneRequestEach /\ [][C4_ControlStep]_vars

\* Recalibrate was pressed and its request made.
C4_Witness ==
    /\ threads = {}
    /\ Len(wire) = 1
    /\ wire[1][2].method = "POST"

\* How many of the signals of seq answer thread id.
CountFor(seq, id) == Cardinality({i \in 1..Len(seq) : seq[i][3][2] = id})

\* Every thread started is running, or its one signal is queued for the main
\* thread, or its one outcome has been delivered.
C6_OneOutcome ==
    \A id \in 1..issued :
        Cardinality({t \in threads : t.id = id})
        + CountFor(main_q, id) + CountFor(http_hist, id) = 1

\* on_http_done appends one 'HTTP <path>: <text>' line; on_http_err sets the
\* status label to 'Error: <err>' and appends one 'Error calling <path>'
\* line.
C6_OutcomeStep ==
    /\ (DeliverHttpDone =>
           log' = << <<"HTTP", Head(main_q)[2], Head(main_q)[3]>> >>)
    /\ (DeliverHttpErr =>
           /\ status_label' = <<"Error", Head(main_q)[3]>>
           /\ log' = << <<"Error calling", Head(main_q)[2], Head(main_q)[3]>> >>)

\* Every call of send_http gets its outcome delivered, whatever the outcomes
\* of the calls before it.
C6_Eventually ==
    \A id \in 1..MaxRequests :
        (issued >= id) ~> (CountFor(http_hist, id) = 1)

FairSpecHttp ==
    /\ SpecHttp
    /\ WF_vars(HttpWork)
    /\ WF_vars(DeliverHttpDone)
    /\ WF_vars(DeliverHttpErr)

\* C9: once every response to the /status requests issued has been
\* delivered, the status label shows the response to the most recently
\* issued one (here: all requests are /status requests and all succeeded).
C9_LatestStatusShown ==
    (/\ issued >= 2
     /\ threads = {}
     /\ main_q = <<>>
     /\ \A i \in 1..Len(http_hist) :
           http_hist[i][1] = "http_done" /\ http_hist[i][2] = "/status")
    => \E i \in 1..Len(http_hist) :
          /\ http_hist[i][3][2] = issued
          /\ status_label = <<"Status", http_hist[i][3]>>

====
